---- MODULE Spec2Model ----
(***************************************************************************)
(* SuiProof content anchor registry (sui/sources/suiproof.move).           *)
(*                                                                         *)
(* The Move package keeps                                                  *)
(*   - one shared Manifest: a table content_hash -> AnchorInfo and the     *)
(*     vector content_hashes used for enumeration (create_anchor);         *)
(*   - owned Anchor objects (create_anchor);                               *)
(*   - owned MediaManifest objects, the provenance records                 *)
(*     (anchor_original_media, create_edited_version);                     *)
(*   - the events the entry functions emit.                                *)
(* A transaction executes one entry function atomically: it either runs    *)
(* to completion or aborts and leaves every object untouched.              *)
(***************************************************************************)
EXTENDS Integers, Sequences, FiniteSets, Bags, TLC

\* ------------------------------------------------------------------ bounds
\* Number of transactions executed in one behaviour.
MaxTx == 3
\* Largest value of the epoch timestamp.
MaxEpochMs == 1
\* Number of transactions in flight at once (concurrent submission).
MaxInFlight == 2
\* Number of transactions submitted in one behaviour of concurrent submission.
MaxConcTx == 2

\* Largest value of a u64.  The model uses a short word: the sums of
\* get_paginated_anchor_infos overflow at MaxU64 as they do at 2^64 - 1.
MaxU64 == 7

\* ------------------------------------------------------------ input domains
\* Content hashes (vector<u8>).  Short byte vectors stand for the digests.
Hashes == {<<170>>, <<187>>}
\* Transaction senders.
Senders == {"alice", "bob"}
\* A byte vector that is not valid UTF-8 (the single byte 0xFF).
BadUtf8 == "<0xFF>"
Cids == {"cid-1"}
GpsValues == {"40.7N,74.0W", BadUtf8}
AgencyIds == {"SUI_AP_091"}
EditTypes == {"cropped 20%", BadUtf8}
\* Content hashes and creators the view functions are asked about.
MoreHashes == Hashes \cup {<<204>>}
Creators == Senders \cup {"carol"}
\* start and limit of get_paginated_anchor_infos.
PageStarts == {0, 1, 2, MaxU64}
PageLimits == {0, 1, 2, 5, MaxU64}
\* What the caller of the registry's insert_derivative asks for as
\* location_tag_override / organization_tag_override.
NoOverride == "<none>"
\* <<location_tag_override, organization_tag_override>>
Overrides == {<<NoOverride, NoOverride>>, <<"48.8N,2.3E", NoOverride>>,
              <<NoOverride, "SUI_RT_007">>}

\* ------------------------------------------------------------------- state
VARIABLES
    anchors,          \* Manifest.anchors : Table<vector<u8>, AnchorInfo>
    content_hashes,   \* Manifest.content_hashes : vector<vector<u8>>
    anchor_objects,   \* the Anchor objects, each with its owner
    media_objects,    \* the MediaManifest objects, each with its owner
    events,           \* the events emitted so far, in order
    ids_created,      \* number of object ids handed out by object::new
    epoch_ms,         \* tx_context::epoch_timestamp_ms
    effects,          \* executed transactions, in execution order
    inflight,         \* transactions submitted and not yet acknowledged
    clock_ms,         \* the chain's clock: the time now, in milliseconds
    result,           \* what the view function called last returned
    agency_objects,   \* the AgencyObject objects, each with its owner
    press_passes,     \* the PressPass objects, each with its owner
    transactionHistory, \* institutional node: the recorded transactions
    journalistSet,    \* institutional node: the journalists seen
    listening,        \* institutional node: the server accepts requests
    now,              \* institutional node: Date.now()
    response,         \* institutional node: the response sent last
    mediaManifests,   \* dashboard: the React state holding the manifests
    localStorage,     \* dashboard: the manifests saved in the browser
    mounted,          \* dashboard: the page is open
    verifying,        \* dashboard: the status verification started on mount
    creating,         \* dashboard: the bag of anchor creations in flight
    audit             \* verifier page: what the last verification showed

\* The state of the institutional node.
node == <<transactionHistory, journalistSet, listening, now, response>>

\* The state outside the anchor registry and the media manifests.
\* The state of the dashboard and the verifier page.
dash == <<mediaManifests, localStorage, mounted, verifying, creating, audit>>

others == <<agency_objects, press_passes, node, dash>>

vars == <<anchors, content_hashes, anchor_objects, media_objects, events,
          ids_created, epoch_ms, effects, inflight, clock_ms, result, others>>

ledger == <<anchors, content_hashes, anchor_objects, media_objects, events,
            ids_created>>

\* ------------------------------------------------------------- error codes
E_ANCHOR_ALREADY_EXISTS == 0

\* ---------------------------------------------------------------- helpers
\* object::id_from_address(@0x0)
ZeroId == 0
NoText == ""

\* object::new(ctx): a fresh id, different from every earlier one and from 0x0.
object_new == ids_created + 1

\* string::utf8 aborts on a byte vector that is not valid UTF-8.
utf8_valid(bytes) == bytes # BadUtf8

\* table::contains
table_contains(t, k) == k \in DOMAIN t

\* table::add (aborts in the library when the key is present; the callers
\* below only reach it with an absent key)
table_add(t, k, v) == [x \in (DOMAIN t) \cup {k} |-> IF x = k THEN v ELSE t[x]]

\* vector::push_back
push_back(v, e) == Append(v, e)

HexChars == <<"0", "1", "2", "3", "4", "5", "6", "7",
              "8", "9", "a", "b", "c", "d", "e", "f">>

\* bytes_to_hex_string: two hex characters per byte, high nibble first.
RECURSIVE bytes_to_hex_string(_)
bytes_to_hex_string(bytes) ==
    IF bytes = <<>> THEN ""
    ELSE LET byte == Head(bytes)
             high == byte \div 16
             low  == byte % 16
         IN HexChars[high + 1] \o HexChars[low + 1] \o bytes_to_hex_string(Tail(bytes))

\* Transaction status.
Success == [ok |-> TRUE, module |-> "", code |-> 0]
Abort(m, c) == [ok |-> FALSE, module |-> m, code |-> c]

\* The call a transaction carries.
Call(fn, sender, content_hash, ipfs_cid, gps, agency, parent, edit_type, gps_ov, agency_ov) ==
    [fn |-> fn, sender |-> sender, content_hash |-> content_hash,
     ipfs_cid |-> ipfs_cid, gps_coordinates |-> gps, agency_id |-> agency,
     parent |-> parent, edit_type |-> edit_type,
     location_tag_override |-> gps_ov, organization_tag_override |-> agency_ov]

CreateAnchorCall(content_hash, sender) ==
    Call("create_anchor", sender, content_hash, NoText, NoText, NoText, ZeroId,
         NoText, NoOverride, NoOverride)

\* No view function has been called yet.
NoResult == [op |-> "none", args |-> <<>>, value |-> <<>>, at |-> 0]

\* The effects of an executed transaction.
Effects(call, status, created) ==
    [call |-> call, status |-> status, created |-> created]

\* ------------------------------------------------------------------- init
\* init: an empty shared Manifest.
Init ==
    /\ anchors = <<>>
    /\ content_hashes = <<>>
    /\ anchor_objects = {}
    /\ media_objects = {}
    /\ events = <<>>
    /\ ids_created = 0
    /\ epoch_ms = 0
    /\ effects = <<>>
    /\ inflight = {}
    /\ clock_ms = 0
    /\ result = NoResult
    /\ agency_objects = {}
    /\ press_passes = {}
    /\ transactionHistory = <<>>
    /\ journalistSet = {}
    /\ listening = FALSE
    /\ now = 0
    /\ response = [endpoint |-> "none"]
    /\ mediaManifests = <<>>
    /\ localStorage = <<>>
    /\ mounted = FALSE
    /\ verifying = [running |-> FALSE, mediaManifests |-> <<>>]
    /\ creating = EmptyBag
    /\ audit = [view |-> "none"]

\* ------------------------------------------------------- entry functions
AnchorInfo(anchor_id, creator, created_at) ==
    [anchor_id |-> anchor_id, creator |-> creator, created_at |-> created_at]

AnchorCreated(anchor, hex_string) ==
    [type |-> "AnchorCreated", anchor_id |-> anchor.id,
     content_hash |-> anchor.content_hash, content_hash_hex |-> hex_string,
     creator |-> anchor.creator, created_at |-> anchor.created_at]

\* Variant: the duplicate check is left out.
anchor_already_exists_unchecked(content_hash) == FALSE

\* The duplicate check of create_anchor.
anchor_already_exists(content_hash) == table_contains(anchors, content_hash)

\* Variant: the hash is not stored in the enumeration list.
hashes_with_forgotten(content_hash) == content_hashes

\* Variant: the hash is stored at the front of the enumeration list.
hashes_with_prepended(content_hash) == <<content_hash>> \o content_hashes

\* manifest.content_hashes after create_anchor stored the hash for enumeration.
hashes_with(content_hash) == push_back(content_hashes, content_hash)

\* Variant: adding an anchor overwrites the info of the anchors already there.
anchors_with_rewrite(content_hash, anchor_info) ==
    [x \in (DOMAIN anchors) \cup {content_hash} |-> anchor_info]

\* Variant: the anchor's info is not added to the table.
anchors_with_forgotten(content_hash, anchor_info) == anchors

\* manifest.anchors after create_anchor added the anchor's info.
anchors_with(content_hash, anchor_info) == table_add(anchors, content_hash, anchor_info)

\* create_anchor(manifest, content_hash, ctx)
create_anchor(content_hash, sender) ==
    LET call == CreateAnchorCall(content_hash, sender) IN
    IF anchor_already_exists(content_hash)
    THEN /\ effects' = Append(effects, Effects(call, Abort("suiproof", E_ANCHOR_ALREADY_EXISTS), ZeroId))
         /\ UNCHANGED ledger
    ELSE IF table_contains(anchors, content_hash)
    THEN \* table::add aborts on a key that is present
         /\ effects' = Append(effects, Effects(call, Abort("dynamic_field", 0), ZeroId))
         /\ UNCHANGED ledger
    ELSE LET created_at  == epoch_ms
             anchor      == [id |-> object_new, content_hash |-> content_hash,
                             creator |-> sender, created_at |-> created_at]
             anchor_info == AnchorInfo(anchor.id, sender, created_at)
             hex_string  == bytes_to_hex_string(anchor.content_hash)
         IN /\ events' = Append(events, AnchorCreated(anchor, hex_string))
            /\ content_hashes' = hashes_with(anchor.content_hash)
            /\ anchors' = anchors_with(anchor.content_hash, anchor_info)
            /\ anchor_objects' = anchor_objects \cup {[object |-> anchor, owner |-> sender]}
            /\ ids_created' = ids_created + 1
            /\ effects' = Append(effects, Effects(call, Success, anchor.id))
            /\ UNCHANGED media_objects

MediaCall(ipfs_cid, content_hash, gps_coordinates, agency_id, sender) ==
    Call("anchor_original_media", sender, content_hash, ipfs_cid, gps_coordinates,
         agency_id, ZeroId, NoText, NoOverride, NoOverride)

\* The registry-level request insert_derivative(parent, locator, location
\* override, organization override, edit type) as it reaches the entry
\* function: create_edited_version has no parameter for an override.
EditCall(original_manifest, new_ipfs_cid, new_content_hash, edit_type, sender, gps_ov, agency_ov) ==
    Call("create_edited_version", sender, new_content_hash, new_ipfs_cid, NoText,
         NoText, original_manifest.id, edit_type, gps_ov, agency_ov)

\* The MediaManifest built by anchor_original_media.
OriginalManifest(id, ipfs_cid, content_hash, gps_coordinates, agency_id, sender, created_at) ==
    [id |-> id, ipfs_cid |-> ipfs_cid, content_hash |-> content_hash,
     gps_coordinates |-> gps_coordinates, agency_id |-> agency_id,
     creator |-> sender, created_at |-> created_at,
     parent_id |-> ZeroId, edit_type |-> NoText, is_original |-> TRUE]

\* Variant: the edited version is flagged as an original.
EditedManifest_flagged_original(id, original_manifest, new_ipfs_cid, new_content_hash, edit_type, sender, created_at) ==
    [id |-> id, ipfs_cid |-> new_ipfs_cid, content_hash |-> new_content_hash,
     gps_coordinates |-> original_manifest.gps_coordinates,
     agency_id |-> original_manifest.agency_id,
     creator |-> sender, created_at |-> created_at,
     parent_id |-> original_manifest.id, edit_type |-> edit_type,
     is_original |-> TRUE]

\* Variant: the edited version links to the parent's parent.
EditedManifest_wrong_parent(id, original_manifest, new_ipfs_cid, new_content_hash, edit_type, sender, created_at) ==
    [id |-> id, ipfs_cid |-> new_ipfs_cid, content_hash |-> new_content_hash,
     gps_coordinates |-> original_manifest.gps_coordinates,
     agency_id |-> original_manifest.agency_id,
     creator |-> sender, created_at |-> created_at,
     parent_id |-> original_manifest.parent_id, edit_type |-> edit_type,
     is_original |-> FALSE]

\* Variant: the edited version does not inherit the GPS coordinates.
EditedManifest_no_gps(id, original_manifest, new_ipfs_cid, new_content_hash, edit_type, sender, created_at) ==
    [id |-> id, ipfs_cid |-> new_ipfs_cid, content_hash |-> new_content_hash,
     gps_coordinates |-> NoText,
     agency_id |-> original_manifest.agency_id,
     creator |-> sender, created_at |-> created_at,
     parent_id |-> original_manifest.id, edit_type |-> edit_type,
     is_original |-> FALSE]

\* The MediaManifest built by create_edited_version.
EditedManifest(id, original_manifest, new_ipfs_cid, new_content_hash, edit_type, sender, created_at) ==
    [id |-> id, ipfs_cid |-> new_ipfs_cid, content_hash |-> new_content_hash,
     gps_coordinates |-> original_manifest.gps_coordinates,
     agency_id |-> original_manifest.agency_id,
     creator |-> sender, created_at |-> created_at,
     parent_id |-> original_manifest.id, edit_type |-> edit_type,
     is_original |-> FALSE]

\* Variant: the event always reports "no parent".
MediaAnchored_no_parent(media_manifest, content_hash_hex, is_original) ==
    [type |-> "MediaAnchored", manifest_id |-> media_manifest.id,
     ipfs_cid |-> media_manifest.ipfs_cid, content_hash_hex |-> content_hash_hex,
     gps_coordinates |-> media_manifest.gps_coordinates,
     agency_id |-> media_manifest.agency_id,
     creator |-> media_manifest.creator, created_at |-> media_manifest.created_at,
     parent_id |-> ZeroId, is_original |-> is_original]

\* The MediaAnchored event both functions emit for the manifest they built.
MediaAnchored(media_manifest, content_hash_hex, is_original) ==
    [type |-> "MediaAnchored", manifest_id |-> media_manifest.id,
     ipfs_cid |-> media_manifest.ipfs_cid, content_hash_hex |-> content_hash_hex,
     gps_coordinates |-> media_manifest.gps_coordinates,
     agency_id |-> media_manifest.agency_id,
     creator |-> media_manifest.creator, created_at |-> media_manifest.created_at,
     parent_id |-> media_manifest.parent_id, is_original |-> is_original]

\* anchor_original_media(ipfs_cid, content_hash, gps_coordinates, agency_id, ctx)
anchor_original_media(ipfs_cid, content_hash, gps_coordinates, agency_id, sender) ==
    LET call == MediaCall(ipfs_cid, content_hash, gps_coordinates, agency_id, sender) IN
    IF ~(utf8_valid(ipfs_cid) /\ utf8_valid(gps_coordinates) /\ utf8_valid(agency_id))
    THEN /\ effects' = Append(effects, Effects(call, Abort("string", 1), ZeroId))
         /\ UNCHANGED ledger
    ELSE LET created_at     == epoch_ms
             media_manifest == OriginalManifest(object_new, ipfs_cid, content_hash,
                                   gps_coordinates, agency_id, sender, created_at)
             content_hash_hex == bytes_to_hex_string(content_hash)
         IN /\ events' = Append(events, MediaAnchored(media_manifest, content_hash_hex, TRUE))
            /\ media_objects' = media_objects \cup {[object |-> media_manifest, owner |-> sender]}
            /\ ids_created' = ids_created + 1
            /\ effects' = Append(effects, Effects(call, Success, media_manifest.id))
            /\ UNCHANGED <<anchors, content_hashes, anchor_objects>>

\* create_edited_version(original_manifest, new_ipfs_cid, new_content_hash, edit_type, ctx)
create_edited_version(original_manifest, new_ipfs_cid, new_content_hash, edit_type, sender, gps_ov, agency_ov) ==
    LET call == EditCall(original_manifest, new_ipfs_cid, new_content_hash, edit_type,
                         sender, gps_ov, agency_ov) IN
    IF ~(utf8_valid(new_ipfs_cid) /\ utf8_valid(edit_type))
    THEN /\ effects' = Append(effects, Effects(call, Abort("string", 1), ZeroId))
         /\ UNCHANGED ledger
    ELSE LET created_at      == epoch_ms
             edited_manifest == EditedManifest(object_new, original_manifest, new_ipfs_cid,
                                    new_content_hash, edit_type, sender, created_at)
             content_hash_hex == bytes_to_hex_string(new_content_hash)
         IN /\ events' = Append(events, MediaAnchored(edited_manifest, content_hash_hex, FALSE))
            /\ media_objects' = media_objects \cup {[object |-> edited_manifest, owner |-> sender]}
            /\ ids_created' = ids_created + 1
            /\ effects' = Append(effects, Effects(call, Success, edited_manifest.id))
            /\ UNCHANGED <<anchors, content_hashes, anchor_objects>>

\* ------------------------------------------------------------ transactions
TxCreateAnchor ==
    /\ Len(effects) < MaxTx
    /\ \E content_hash \in Hashes, sender \in Senders :
           create_anchor(content_hash, sender)
    /\ UNCHANGED <<epoch_ms, inflight, clock_ms, result, others>>

TxAnchorOriginalMedia ==
    /\ Len(effects) < MaxTx
    /\ \E ipfs_cid \in Cids, content_hash \in Hashes, gps_coordinates \in GpsValues,
          agency_id \in AgencyIds, sender \in Senders :
           anchor_original_media(ipfs_cid, content_hash, gps_coordinates, agency_id, sender)
    /\ UNCHANGED <<epoch_ms, inflight, clock_ms, result, others>>

\* An owned object can only be passed to a transaction by its owner.
TxCreateEditedVersion ==
    /\ Len(effects) < MaxTx
    /\ \E m \in media_objects, new_ipfs_cid \in Cids, new_content_hash \in Hashes,
          edit_type \in EditTypes, ov \in Overrides :
           create_edited_version(m.object, new_ipfs_cid, new_content_hash, edit_type,
                                 m.owner, ov[1], ov[2])
    /\ UNCHANGED <<epoch_ms, inflight, clock_ms, result, others>>

\* A new epoch starts: epoch_timestamp_ms becomes the time at which it starts.
AdvanceEpoch ==
    /\ clock_ms < MaxEpochMs
    /\ clock_ms' = clock_ms + 1
    /\ epoch_ms' = clock_ms'
    /\ UNCHANGED <<ledger, effects, inflight, result, others>>

Next ==
    \/ TxCreateAnchor
    \/ TxAnchorOriginalMedia
    \/ TxCreateEditedVersion
    \/ AdvanceEpoch

Spec == Init /\ [][Next]_vars

\* ------------------------------------------------------- time in an epoch
\* Time passes within the epoch: the clock moves, epoch_timestamp_ms stays.
Tick ==
    /\ clock_ms < MaxEpochMs
    /\ clock_ms' = clock_ms + 1
    /\ UNCHANGED <<ledger, epoch_ms, effects, inflight, result, others>>

NextClock ==
    \/ TxCreateAnchor
    \/ TxAnchorOriginalMedia
    \/ TxCreateEditedVersion
    \/ AdvanceEpoch
    \/ Tick

SpecClock == Init /\ [][NextClock]_vars

\* ------------------------------------------------- concurrent submission
\* Clients submit transactions concurrently; the chain executes each one
\* atomically, in some order, and the client is then told the outcome.
\* A transaction is in flight from its submission to that acknowledgement.
Slots == 1..MaxInFlight

Pending(t) == t.status = "pending"

Submit(call) ==
    /\ Len(effects) + Cardinality({t \in inflight : Pending(t)}) < MaxConcTx
    /\ \E slot \in Slots :
          /\ \A t \in inflight : t.slot # slot
          /\ inflight' = inflight \cup {[slot |-> slot, call |-> call, status |-> "pending"]}
    /\ UNCHANGED <<ledger, epoch_ms, effects, clock_ms, result, others>>

SubmitCreateAnchor ==
    \E content_hash \in Hashes, sender \in Senders :
        Submit(CreateAnchorCall(content_hash, sender))

SubmitAnchorOriginalMedia ==
    \E ipfs_cid \in Cids, content_hash \in Hashes, gps_coordinates \in GpsValues,
       agency_id \in AgencyIds, sender \in Senders :
        Submit(MediaCall(ipfs_cid, content_hash, gps_coordinates, agency_id, sender))

SubmitCreateEditedVersion ==
    \E m \in media_objects, new_ipfs_cid \in Cids, new_content_hash \in Hashes,
       edit_type \in EditTypes, ov \in Overrides :
        Submit(EditCall(m.object, new_ipfs_cid, new_content_hash, edit_type,
                        m.owner, ov[1], ov[2]))

\* The chain runs the entry function the transaction names.
Run(call) ==
    CASE call.fn = "create_anchor" ->
            create_anchor(call.content_hash, call.sender)
      [] call.fn = "anchor_original_media" ->
            anchor_original_media(call.ipfs_cid, call.content_hash,
                                  call.gps_coordinates, call.agency_id, call.sender)
      [] call.fn = "create_edited_version" ->
            \E m \in media_objects :
                /\ m.object.id = call.parent
                /\ create_edited_version(m.object, call.ipfs_cid, call.content_hash,
                                         call.edit_type, call.sender,
                                         call.location_tag_override,
                                         call.organization_tag_override)

Execute ==
    \E t \in inflight :
        /\ Pending(t)
        /\ Run(t.call)
        /\ inflight' = (inflight \ {t}) \cup
               {[t EXCEPT !.status = IF effects'[Len(effects')].status.ok
                                     THEN "success" ELSE "aborted"]}
        /\ UNCHANGED <<epoch_ms, clock_ms, result, others>>

Acknowledge ==
    \E t \in inflight :
        /\ ~Pending(t)
        /\ inflight' = inflight \ {t}
        /\ UNCHANGED <<ledger, epoch_ms, effects, clock_ms, result, others>>

NextConc ==
    \/ SubmitCreateAnchor
    \/ SubmitAnchorOriginalMedia
    \/ SubmitCreateEditedVersion
    \/ Execute
    \/ Acknowledge
    \/ AdvanceEpoch

SpecConc == Init /\ [][NextConc]_vars

\* ---------------------------------------------------------- view functions
\* get_content_hashes(manifest)
get_content_hashes == content_hashes

\* get_anchor_count(manifest)
get_anchor_count == Len(content_hashes)

\* What a view function hands back: a value, or the abort that ended it.
Ret(v) == [aborted |-> FALSE, module |-> "", val |-> v]
Aborted(m) == [aborted |-> TRUE, module |-> m, val |-> <<>>]

\* table::borrow aborts on a key that is absent.
table_borrow(t, k) == IF table_contains(t, k) THEN Ret(t[k]) ELSE Aborted("dynamic_field")

\* vector::borrow(v, i), i counted from 0; aborts past the end.
vector_borrow(v, i) == IF i < Len(v) THEN Ret(v[i + 1]) ELSE Aborted("vector")

\* Variant: reports an anchor as soon as the manifest holds any.
verify_content_any(content_hash) == Len(content_hashes) > 0

\* verify_content(manifest, content_hash)
verify_content(content_hash) == table_contains(anchors, content_hash)

\* Variant: the info is stamped with the current timestamp.
get_anchor_info_stamped(content_hash) ==
    IF table_contains(anchors, content_hash)
    THEN Ret([anchors[content_hash] EXCEPT !.created_at = epoch_ms])
    ELSE Aborted("dynamic_field")

\* get_anchor_info(manifest, content_hash)
get_anchor_info(content_hash) == table_borrow(anchors, content_hash)

\* The default AnchorInfo with zero values.
default_info == AnchorInfo(ZeroId, "0x0", 0)

\* try_get_anchor_info(manifest, content_hash)
try_get_anchor_info(content_hash) ==
    IF table_contains(anchors, content_hash)
    THEN LET info == table_borrow(anchors, content_hash).val
         IN <<TRUE, info>>
    ELSE <<FALSE, default_info>>

\* Variant: the end index is not cut at the length of the list.
page_end_unclamped(start, limit, len) == start + limit

\* The end index get_paginated_anchor_infos computes.
page_end(start, limit, len) == IF start + limit > len THEN len ELSE start + limit

\* The loop of get_paginated_anchor_infos, from index i.
RECURSIVE collect_infos(_, _, _)
collect_infos(i, end, infos) ==
    IF i < end
    THEN LET content_hash == vector_borrow(content_hashes, i)
             anchor_info  == table_borrow(anchors, content_hash.val)
         IN IF content_hash.aborted THEN content_hash
            ELSE IF anchor_info.aborted THEN anchor_info
            ELSE collect_infos(i + 1, end, push_back(infos, anchor_info.val))
    ELSE Ret(infos)

\* get_paginated_anchor_infos(manifest, start, limit)
get_paginated_anchor_infos(start, limit) ==
    LET len == Len(content_hashes) IN
    IF start >= len THEN Ret(<<>>)
    ELSE IF start + limit > MaxU64 THEN Aborted("arithmetic")
    ELSE collect_infos(start, page_end(start, limit, len), <<>>)

\* Variant: the filter lets every anchor through.
creator_matches_all(anchor_info, creator) == TRUE

\* The filter of get_anchors_by_creator.
creator_matches(anchor_info, creator) == anchor_info.creator = creator

\* The loop of get_anchors_by_creator, from index i.
RECURSIVE scan_creator(_, _, _, _)
scan_creator(i, len, creator, found) ==
    IF i < len
    THEN LET content_hash == vector_borrow(content_hashes, i)
             anchor_info  == table_borrow(anchors, content_hash.val)
         IN IF content_hash.aborted THEN content_hash
            ELSE IF anchor_info.aborted THEN anchor_info
            ELSE scan_creator(i + 1, len, creator,
                     IF creator_matches(anchor_info.val, creator)
                     THEN push_back(found, anchor_info.val) ELSE found)
    ELSE Ret(found)

\* get_anchors_by_creator(manifest, creator)
get_anchors_by_creator(creator) ==
    scan_creator(0, Len(content_hashes), creator, <<>>)

\* ------------------------------------------------------------------ reads
\* A client calls a view function on the manifest as it is now; nothing but
\* the returned value changes.  `at' is the number of transactions executed
\* before the call.
Read(op, args, value) ==
    /\ result' = [op |-> op, args |-> args, value |-> value, at |-> Len(effects)]
    /\ UNCHANGED <<ledger, epoch_ms, effects, inflight, clock_ms, others>>

CallVerifyContent ==
    \E content_hash \in MoreHashes :
        Read("verify_content", <<content_hash>>, Ret(verify_content(content_hash)))

CallGetAnchorInfo ==
    \E content_hash \in MoreHashes :
        Read("get_anchor_info", <<content_hash>>, get_anchor_info(content_hash))

CallTryGetAnchorInfo ==
    \E content_hash \in MoreHashes :
        Read("try_get_anchor_info", <<content_hash>>, Ret(try_get_anchor_info(content_hash)))

CallGetContentHashes == Read("get_content_hashes", <<>>, Ret(get_content_hashes))

CallGetAnchorCount == Read("get_anchor_count", <<>>, Ret(get_anchor_count))

CallGetPaginatedAnchorInfos ==
    \E start \in PageStarts, limit \in PageLimits :
        Read("get_paginated_anchor_infos", <<start, limit>>,
             get_paginated_anchor_infos(start, limit))

CallGetAnchorsByCreator ==
    \E creator \in Creators :
        Read("get_anchors_by_creator", <<creator>>, get_anchors_by_creator(creator))

\* create_anchor transactions over the larger set of hashes.
TxCreateAnchorMore ==
    /\ Len(effects) < MaxTx
    /\ \E content_hash \in MoreHashes, sender \in Senders :
           create_anchor(content_hash, sender)
    /\ UNCHANGED <<epoch_ms, inflight, clock_ms, result, others>>

NextRead ==
    \/ TxCreateAnchorMore
    \/ CallVerifyContent
    \/ CallGetAnchorInfo
    \/ CallTryGetAnchorInfo
    \/ CallGetContentHashes
    \/ CallGetAnchorCount
    \/ CallGetPaginatedAnchorInfos
    \/ CallGetAnchorsByCreator

SpecRead == Init /\ [][NextRead]_vars

\* ------------------------------------------------------------- properties
\* The transaction executed last.
Executed == effects[Len(effects)]

\* This step executes a transaction.
Executes == Len(effects') = Len(effects) + 1

DuplicateFingerprint == Abort("suiproof", E_ANCHOR_ALREADY_EXISTS)

IsInsert(call) == call.fn \in {"create_anchor", "anchor_original_media", "create_edited_version"}

\* The MediaManifest with the given id.
Manifest(id) == (CHOOSE m \in media_objects : m.object.id = id).object

SeqToSet(q) == {q[i] : i \in 1..Len(q)}

\* C1: no two records created by an insert carry the same fingerprint.
C1_UniqueFingerprint ==
    /\ \A a, b \in anchor_objects :
           a.object.content_hash = b.object.content_hash => a.object.id = b.object.id
    /\ \A a, b \in media_objects :
           a.object.content_hash = b.object.content_hash => a.object.id = b.object.id

\* C2: create_anchor for a content hash that is already in the manifest fails
\* with E_ANCHOR_ALREADY_EXISTS and leaves the table, the enumeration list
\* and the count (and every other object) as they were.
C2_DuplicateInsertFails ==
    [][(Executes /\ Executed'.call.fn = "create_anchor"
          /\ table_contains(anchors, Executed'.call.content_hash))
       => (/\ Executed'.status = DuplicateFingerprint
           /\ anchors' = anchors
           /\ get_content_hashes' = get_content_hashes
           /\ get_anchor_count' = get_anchor_count
           /\ UNCHANGED ledger)]_vars

\* Scenario 2: a re-insert has just failed and the count is still 1.
C2_Witness ==
    /\ Len(effects) >= 2
    /\ Executed.call.fn = "create_anchor"
    /\ Executed.status = DuplicateFingerprint
    /\ get_anchor_count = 1

\* C3: of the insert transactions for one fingerprint that are in flight
\* together, at most one succeeds.
C3_AtMostOneConcurrentSuccess ==
    \A t1, t2 \in inflight :
        (/\ t1 # t2
         /\ IsInsert(t1.call) /\ IsInsert(t2.call)
         /\ t1.call.content_hash = t2.call.content_hash
         /\ t1.status = "success")
        => t2.status # "success"

\* C4: the enumeration list has no duplicates, holds exactly the keys of the
\* table, and is as long as the table is large.
C4_OrderMatchesTable ==
    /\ \A i, j \in 1..Len(content_hashes) :
           content_hashes[i] = content_hashes[j] => i = j
    /\ SeqToSet(content_hashes) = DOMAIN anchors
    /\ Len(content_hashes) = Cardinality(DOMAIN anchors)

C4_Witness ==
    /\ Len(content_hashes) = 2
    /\ \E i \in 1..Len(effects) : ~effects[i].status.ok

\* The content hashes of the create_anchor transactions that succeeded, in
\* the order in which they were executed.
RECURSIVE SuccessfulAnchorHashes(_)
SuccessfulAnchorHashes(log) ==
    IF log = <<>> THEN <<>>
    ELSE LET e == log[Len(log)]
             before == SuccessfulAnchorHashes(SubSeq(log, 1, Len(log) - 1))
         IN IF e.call.fn = "create_anchor" /\ e.status.ok
            THEN Append(before, e.call.content_hash)
            ELSE before

\* C5: get_content_hashes returns exactly the hashes of the successful
\* create_anchor transactions, in the order in which they succeeded, and
\* get_anchor_count is its length.
C5_ListIsInsertOrder ==
    /\ get_content_hashes = SuccessfulAnchorHashes(effects)
    /\ get_anchor_count = Len(SuccessfulAnchorHashes(effects))

\* Two inserts succeeded around a failed one.
C5_Witness ==
    /\ Len(effects) = 3
    /\ effects[1].call.fn = "create_anchor" /\ effects[1].status.ok
    /\ effects[2].call.fn = "create_anchor" /\ ~effects[2].status.ok
    /\ effects[3].call.fn = "create_anchor" /\ effects[3].status.ok
    /\ get_anchor_count = 2

\* The transactions that succeeded, in execution order.
SuccessfulEffects == SelectSeq(effects, LAMBDA e : e.status.ok)

\* The event ev carries the record the transaction e created.
EventCarries(ev, e) ==
    IF e.call.fn = "create_anchor"
    THEN \E a \in anchor_objects :
            /\ a.object.id = e.created
            /\ a.object.content_hash = e.call.content_hash
            /\ ev = [type |-> "AnchorCreated", anchor_id |-> a.object.id,
                     content_hash |-> a.object.content_hash,
                     content_hash_hex |-> bytes_to_hex_string(a.object.content_hash),
                     creator |-> a.object.creator, created_at |-> a.object.created_at]
    ELSE \E m \in media_objects :
            /\ m.object.id = e.created
            /\ m.object.content_hash = e.call.content_hash
            /\ ev = [type |-> "MediaAnchored", manifest_id |-> m.object.id,
                     ipfs_cid |-> m.object.ipfs_cid,
                     content_hash_hex |-> bytes_to_hex_string(m.object.content_hash),
                     gps_coordinates |-> m.object.gps_coordinates,
                     agency_id |-> m.object.agency_id,
                     creator |-> m.object.creator, created_at |-> m.object.created_at,
                     parent_id |-> m.object.parent_id,
                     is_original |-> m.object.is_original]

C7_DerivativeDuplicateFails ==
    [][(Executes /\ Executed'.call.fn = "create_edited_version"
          /\ \/ \E m \in media_objects : m.object.content_hash = Executed'.call.content_hash
             \/ table_contains(anchors, Executed'.call.content_hash))
       => Executed'.status = DuplicateFingerprint]_vars

\* C8: a record is an original exactly when it has no parent; the records
\* of anchor_original_media are originals without parent, those of
\* create_edited_version are not originals and have a parent.
C8_OriginalIffNoParent ==
    /\ \A m \in media_objects :
           m.object.is_original <=> (m.object.parent_id = ZeroId)
    /\ \A i \in 1..Len(effects) :
           LET e == effects[i] IN
           /\ (e.status.ok /\ e.call.fn = "anchor_original_media") =>
                  (Manifest(e.created).is_original /\ Manifest(e.created).parent_id = ZeroId)
           /\ (e.status.ok /\ e.call.fn = "create_edited_version") =>
                  (~Manifest(e.created).is_original /\ Manifest(e.created).parent_id # ZeroId)

C8_Witness ==
    /\ \E m \in media_objects : m.object.is_original
    /\ \E m \in media_objects : ~m.object.is_original

\* The text arguments of the call are text (valid UTF-8).
TextArguments(call) == utf8_valid(call.ipfs_cid) /\ utf8_valid(call.edit_type)

\* C9: create_edited_version on a manifest that an earlier successful
\* transaction created succeeds (its text arguments being text), and the
\* record it creates has that manifest's id as parent_id and is not an
\* original.
C9_DerivativeOfInsertedParent ==
    \A i \in 1..Len(effects) :
        LET e == effects[i] IN
        (e.call.fn = "create_edited_version" /\ TextArguments(e.call)) =>
            /\ \E j \in 1..(i - 1) : effects[j].status.ok /\ effects[j].created = e.call.parent
            /\ e.status.ok
            /\ Manifest(e.created).parent_id = Manifest(e.call.parent).id
            /\ Manifest(e.created).is_original = FALSE

\* Scenario 3: a derivative of the first record.
C9_Witness ==
    /\ Len(effects) = 2
    /\ effects[1].call.fn = "anchor_original_media" /\ effects[1].status.ok
    /\ effects[2].call.fn = "create_edited_version" /\ effects[2].status.ok
    /\ effects[2].call.content_hash # effects[1].call.content_hash

\* C10 as stated: the record of create_edited_version has the parent's tags
\* when no override is asked for and the override when one is.
C10_TagsDefaultOrOverride ==
    \A i \in 1..Len(effects) :
        LET e == effects[i] IN
        (e.call.fn = "create_edited_version" /\ e.status.ok) =>
            /\ Manifest(e.created).gps_coordinates =
                  IF e.call.location_tag_override = NoOverride
                  THEN Manifest(e.call.parent).gps_coordinates
                  ELSE e.call.location_tag_override
            /\ Manifest(e.created).agency_id =
                  IF e.call.organization_tag_override = NoOverride
                  THEN Manifest(e.call.parent).agency_id
                  ELSE e.call.organization_tag_override

\* C10 amended: the record of create_edited_version always has the parent's
\* gps_coordinates and agency_id; an override cannot be passed.
C10_TagsAlwaysInherited ==
    \A i \in 1..Len(effects) :
        LET e == effects[i] IN
        (e.call.fn = "create_edited_version" /\ e.status.ok) =>
            /\ Manifest(e.created).gps_coordinates = Manifest(e.call.parent).gps_coordinates
            /\ Manifest(e.created).agency_id = Manifest(e.call.parent).agency_id

\* An edited version was created by a caller who wanted another location.
C10_Witness ==
    /\ Len(effects) >= 2
    /\ Executed.call.fn = "create_edited_version" /\ Executed.status.ok
    /\ Executed.call.location_tag_override # NoOverride
    /\ Manifest(Executed.created).gps_coordinates = Manifest(Executed.call.parent).gps_coordinates

\* C11: the created_at of a media manifest is the time on the chain's clock
\* at which the transaction that created it was executed.
C11_CreatedAtIsInsertionTime ==
    [][(Executes /\ Executed'.status.ok
          /\ Executed'.call.fn \in {"anchor_original_media", "create_edited_version"})
       => \E m \in media_objects' :
              /\ m.object.id = Executed'.created
              /\ m.object.created_at = clock_ms]_vars

\* C12: whatever happens, an anchor's entry stays in the manifest with the
\* info it was given, its hash keeps its place in the enumeration list, and
\* every Anchor and MediaManifest object stays as it was created.
C12_RecordsNeverChange ==
    [][/\ \A f \in DOMAIN anchors : table_contains(anchors', f) /\ anchors'[f] = anchors[f]
       /\ Len(content_hashes) <= Len(content_hashes')
       /\ SubSeq(content_hashes', 1, Len(content_hashes)) = content_hashes
       /\ anchor_objects \subseteq anchor_objects'
       /\ media_objects \subseteq media_objects']_vars

\* Three records of three transactions: the first has seen two more arrive.
C12_Witness ==
    /\ Len(effects) = 3
    /\ effects[1].call.fn = "create_anchor" /\ effects[1].status.ok
    /\ effects[2].call.fn = "create_anchor" /\ effects[2].status.ok
    /\ effects[3].call.fn \in {"create_edited_version", "anchor_original_media"}
    /\ effects[3].status.ok
    /\ anchors[effects[1].call.content_hash].anchor_id = effects[1].created

\* ------------------------------------------------ claims on view functions
\* The successful create_anchor transactions among the first k executed.
InsertedAt(k) ==
    SelectSeq(SubSeq(effects, 1, k),
              LAMBDA e : e.call.fn = "create_anchor" /\ e.status.ok)

\* The record the successful create_anchor transaction e registered: the id
\* of the Anchor it created, its sender, and the Anchor's creation time.
RecordOf(e) ==
    LET anchor == (CHOOSE a \in anchor_objects : a.object.id = e.created).object
    IN AnchorInfo(e.created, e.call.sender, anchor.created_at)

\* The records registered by the first k transactions, in execution order.
RecordsAt(k) == [i \in 1..Len(InsertedAt(k)) |-> RecordOf(InsertedAt(k)[i])]

\* The content hash was registered by one of the first k transactions.
PresentAt(content_hash, k) ==
    \E i \in 1..Len(InsertedAt(k)) : InsertedAt(k)[i].call.content_hash = content_hash

\* The record registered under the content hash by the first k transactions.
RecordAt(content_hash, k) ==
    RecordOf(InsertedAt(k)[CHOOSE i \in 1..Len(InsertedAt(k)) :
                               InsertedAt(k)[i].call.content_hash = content_hash])

\* C13: a lookup returns the registered record for a hash that is
\* present, and for an absent hash it reports the absence and never hands
\* out a zero-valued record.
C13_LookupNeverZeroRecord ==
    /\ result.op = "get_anchor_info" =>
          IF PresentAt(result.args[1], result.at)
          THEN ~result.value.aborted
               /\ result.value.val = RecordAt(result.args[1], result.at)
          ELSE result.value.aborted
    /\ result.op = "try_get_anchor_info" =>
          IF PresentAt(result.args[1], result.at)
          THEN result.value.val = <<TRUE, RecordAt(result.args[1], result.at)>>
          ELSE /\ result.value.val[1] = FALSE
               /\ result.value.val[2] # default_info

\* A step is a call of the view function op.
Calls(op) ==
    /\ result'.op = op
    /\ \/ result.op # op
       \/ result'.at # result.at
       \/ result'.args # result.args

\* C14: verify_content(f) is true exactly when a create_anchor transaction
\* for f has succeeded, and calling it changes nothing of the ledger.
C14_VerifyContentIffInserted ==
    [][Calls("verify_content") =>
          /\ result'.value.val = PresentAt(result'.args[1], Len(effects))
          /\ UNCHANGED <<ledger, effects>>]_vars

\* verify_content found a hash after another transaction had failed.
C14_Witness ==
    /\ result.op = "verify_content"
    /\ result.value.val = TRUE
    /\ result.at = Len(effects)
    /\ \E i \in 1..Len(effects) : ~effects[i].status.ok

\* Two results of a view function are the same answer.
SameAnswer(a, b) == a.aborted = b.aborted /\ (~a.aborted => a.val = b.val)

\* C15: across any step that is not a successful create_anchor, be it a
\* failed create_anchor, a transaction on media manifests or the start of a
\* new epoch, get_anchor_info answers the same for every hash and
\* get_content_hashes returns the same list.
C15_ReadsStableWithoutInsert ==
    [][~(Executes /\ Executed'.call.fn = "create_anchor" /\ Executed'.status.ok)
       => /\ \A f \in MoreHashes : SameAnswer(get_anchor_info(f), get_anchor_info(f)')
          /\ get_content_hashes' = get_content_hashes]_vars

\* An anchor was registered in the first epoch; since then a new epoch has
\* started and a transaction that registers nothing has been executed.
C15_Witness ==
    /\ Len(effects) >= 2
    /\ effects[1].call.fn = "create_anchor" /\ effects[1].status.ok
    /\ ~(Executed.call.fn = "create_anchor" /\ Executed.status.ok)
    /\ ~get_anchor_info(effects[1].call.content_hash).aborted
    /\ get_anchor_info(effects[1].call.content_hash).val.created_at = 0
    /\ epoch_ms = 1

\* The smaller of two numbers.
Min(a, b) == IF a < b THEN a ELSE b

\* The records at positions [from, to) of the registration order after the
\* first k transactions, positions counted from 0.
RecordsBetween(from, to, k) ==
    IF from >= to THEN <<>> ELSE SubSeq(RecordsAt(k), from + 1, to)

\* C16: get_paginated_anchor_infos(start, limit) returns exactly the records
\* at positions [start, min(start + limit, count)) of the registration order.
C16_PageIsTheSlice ==
    result.op = "get_paginated_anchor_infos" =>
        LET start == result.args[1]
            limit == result.args[2]
            count == Len(RecordsAt(result.at))
        IN /\ ~result.value.aborted
           /\ result.value.val = RecordsBetween(start, Min(start + limit, count), result.at)

\* C17: get_paginated_anchor_infos returns the empty list when start is at
\* or past the number of anchors or limit is 0, every record in registration
\* order for (0, count), and just the last record for (count - 1, 5).
C17_PageEdgeCases ==
    result.op = "get_paginated_anchor_infos" =>
        LET start == result.args[1]
            limit == result.args[2]
            count == Len(RecordsAt(result.at))
        IN /\ (start >= count \/ limit = 0) =>
                 ~result.value.aborted /\ result.value.val = <<>>
           /\ (start = 0 /\ limit = count) =>
                 ~result.value.aborted /\ result.value.val = RecordsAt(result.at)
           /\ (count >= 1 /\ start = count - 1 /\ limit = 5) =>
                 ~result.value.aborted
                 /\ result.value.val = <<RecordsAt(result.at)[count]>>

\* The last of three records was asked for with a limit that reaches past
\* the end.
C17_Witness ==
    /\ result.op = "get_paginated_anchor_infos"
    /\ result.at = Len(effects)
    /\ get_anchor_count = 3
    /\ result.args = <<2, 5>>
    /\ Len(result.value.val) = 1

\* C18: whatever start and limit are, get_paginated_anchor_infos returns a
\* list (possibly empty) or rejects the range as invalid; it never aborts
\* in any other way.
C18_PageNeverAborts ==
    result.op = "get_paginated_anchor_infos" =>
        (result.value.aborted => result.value.module = "InvalidRange")

\* C19: get_anchors_by_creator(c) returns the records of the anchors that c
\* registered, all of them and no one else's, in registration order.
C19_ByCreatorIsTheFilter ==
    result.op = "get_anchors_by_creator" =>
        /\ ~result.value.aborted
        /\ result.value.val =
              SelectSeq(RecordsAt(result.at), LAMBDA r : r.creator = result.args[1])
        /\ result.value.val =
              [i \in 1..Len(result.value.val) |->
                  RecordOf(SelectSeq(InsertedAt(result.at),
                                     LAMBDA e : e.call.sender = result.args[1])[i])]

\* alice registered two anchors with one of bob's between them, and was
\* given her two.
C19_Witness ==
    /\ result.op = "get_anchors_by_creator"
    /\ result.args = <<"alice">>
    /\ result.at = 3
    /\ effects[1].call.sender = "alice" /\ effects[1].status.ok
    /\ effects[2].call.sender = "bob" /\ effects[2].status.ok
    /\ effects[3].call.sender = "alice" /\ effects[3].status.ok
    /\ Len(result.value.val) = 2
    /\ result.value.val[1].anchor_id = effects[1].created
    /\ result.value.val[2].anchor_id = effects[3].created

\* C20: in every state of an execution in which transactions are submitted,
\* executed and acknowledged in any interleaving, a view function finds a hash
\* in the table exactly when it is in the list: verify_content agrees with
\* get_content_hashes, and the loops of get_paginated_anchor_infos and
\* get_anchors_by_creator find a table entry for every hash of the list.
C20_ReadsSeeWholeInserts ==
    /\ \A f \in MoreHashes :
          verify_content(f) <=> \E i \in 1..get_anchor_count : get_content_hashes[i] = f
    /\ LET page == get_paginated_anchor_infos(0, get_anchor_count)
       IN ~page.aborted /\ Len(page.val) = get_anchor_count
    /\ \A creator \in Creators : ~get_anchors_by_creator(creator).aborted

\* One create_anchor has been executed while another, for another hash, is
\* still waiting to be.
C20_Witness ==
    /\ get_anchor_count = 1
    /\ \E t \in inflight :
          /\ Pending(t)
          /\ t.call.fn = "create_anchor"
          /\ ~verify_content(t.call.content_hash)
    /\ \E t \in inflight : t.status = "success" /\ t.call.fn = "create_anchor"

\* ------------------------------------------------- claims on media manifests
\* C22: the content hash of every MediaManifest is 64 bytes long, and the
\* hex string of it in the MediaAnchored event is 128 characters long (the
\* characters come from the lower-case alphabet of bytes_to_hex_string).
C22_FingerprintIs64Bytes ==
    /\ \A m \in media_objects : Len(m.object.content_hash) = 64
    /\ \A i \in 1..Len(events) :
          events[i].type = "MediaAnchored" => Len(events[i].content_hash_hex) = 128

\* ------------------------------------------------- agencies and press passes
E_UNAUTHORIZED == 1

\* Names of agencies and journalists, as byte vectors.
AgencyNames == {"Associated Press", BadUtf8}
JournalistNames == {"Jo Reporter", BadUtf8}
\* expires_at (0 = no expiration)
ExpiryValues == {0, 1}

\* The call of a transaction on agencies and press passes.
AgencyCall(fn, sender, agency, name, agency_id, journalist, journalist_name, expires_at) ==
    [fn |-> fn, sender |-> sender, agency |-> agency, name |-> name,
     agency_id |-> agency_id, journalist |-> journalist,
     journalist_name |-> journalist_name, expires_at |-> expires_at]

AgencyRegistered(agency) ==
    [type |-> "AgencyRegistered", agency_object_id |-> agency.id,
     name |-> agency.name, agency_id |-> agency.agency_id,
     admin |-> agency.admin, created_at |-> agency.created_at]

PressPassIssued(press_pass) ==
    [type |-> "PressPassIssued", pass_id |-> press_pass.id,
     agency_id |-> press_pass.agency_id, journalist |-> press_pass.journalist,
     journalist_name |-> press_pass.journalist_name,
     issued_at |-> press_pass.issued_at]

\* register_agency(name, agency_id, ctx)
register_agency(name, agency_id, sender) ==
    LET call == AgencyCall("register_agency", sender, ZeroId, name, agency_id,
                           "", NoText, 0) IN
    IF ~utf8_valid(name) \/ ~utf8_valid(agency_id)
    THEN /\ effects' = Append(effects, Effects(call, Abort("string", 1), ZeroId))
         /\ UNCHANGED <<ledger, agency_objects, press_passes>>
    ELSE LET created_at == epoch_ms
             agency == [id |-> object_new, name |-> name, agency_id |-> agency_id,
                        admin |-> sender, created_at |-> created_at]
         IN /\ events' = Append(events, AgencyRegistered(agency))
            /\ agency_objects' = agency_objects \cup {[object |-> agency, owner |-> sender]}
            /\ ids_created' = ids_created + 1
            /\ effects' = Append(effects, Effects(call, Success, agency.id))
            /\ UNCHANGED <<anchors, content_hashes, anchor_objects, media_objects,
                           press_passes>>

\* Variant: the sender is not compared with the admin.
sender_is_admin_unchecked(agency, sender) == TRUE

\* The check issue_press_pass asserts.
sender_is_admin(agency, sender) == sender = agency.admin

\* issue_press_pass(agency, journalist, journalist_name, expires_at, ctx)
issue_press_pass(agency, journalist, journalist_name, expires_at, sender) ==
    LET call == AgencyCall("issue_press_pass", sender, agency.id, NoText, NoText,
                           journalist, journalist_name, expires_at) IN
    IF ~sender_is_admin(agency, sender)
    THEN /\ effects' = Append(effects, Effects(call, Abort("suiproof", E_UNAUTHORIZED), ZeroId))
         /\ UNCHANGED <<ledger, agency_objects, press_passes>>
    ELSE IF ~utf8_valid(journalist_name)
    THEN /\ effects' = Append(effects, Effects(call, Abort("string", 1), ZeroId))
         /\ UNCHANGED <<ledger, agency_objects, press_passes>>
    ELSE LET issued_at == epoch_ms
             press_pass == [id |-> object_new, agency_id |-> agency.agency_id,
                            journalist |-> journalist,
                            journalist_name |-> journalist_name,
                            issued_at |-> issued_at, expires_at |-> expires_at,
                            is_active |-> TRUE]
         IN /\ events' = Append(events, PressPassIssued(press_pass))
            /\ press_passes' = press_passes \cup {[object |-> press_pass, owner |-> journalist]}
            /\ ids_created' = ids_created + 1
            /\ effects' = Append(effects, Effects(call, Success, press_pass.id))
            /\ UNCHANGED <<anchors, content_hashes, anchor_objects, media_objects,
                           agency_objects>>

TxRegisterAgency ==
    /\ Len(effects) < MaxTx
    /\ \E name \in AgencyNames, agency_id \in AgencyIds, sender \in Senders :
           register_agency(name, agency_id, sender)
    /\ UNCHANGED <<epoch_ms, inflight, clock_ms, result, node, dash>>

\* issue_press_pass is run for every sender, the admin or not, that presents
\* a reference to an AgencyObject.
TxIssuePressPass ==
    /\ Len(effects) < MaxTx
    /\ \E a \in agency_objects, journalist \in Creators,
          journalist_name \in JournalistNames, expires_at \in ExpiryValues,
          sender \in Senders :
           issue_press_pass(a.object, journalist, journalist_name, expires_at, sender)
    /\ UNCHANGED <<epoch_ms, inflight, clock_ms, result, node, dash>>

NextAgency ==
    \/ TxRegisterAgency
    \/ TxIssuePressPass
    \/ AdvanceEpoch

SpecAgency == Init /\ [][NextAgency]_vars

\* The AgencyObject with the given id.
Agency(id) == (CHOOSE a \in agency_objects : a.object.id = id).object

\* C27: an issue_press_pass transaction succeeds only if its sender is the
\* admin of the AgencyObject it presents; with any other sender it aborts
\* with E_UNAUTHORIZED, creates no PressPass and emits no event.
C27_OnlyAdminIssuesPressPass ==
    [][(Executes /\ Executed'.call.fn = "issue_press_pass") =>
          LET e == Executed'
              admin == Agency(e.call.agency).admin
          IN /\ e.status.ok => e.call.sender = admin
             /\ e.call.sender # admin =>
                   /\ e.status = Abort("suiproof", E_UNAUTHORIZED)
                   /\ press_passes' = press_passes
                   /\ events' = events
                   /\ ids_created' = ids_created]_vars

\* The admin has issued a press pass, and then someone else tried to.
C27_Witness ==
    /\ Len(effects) = 3
    /\ effects[2].call.fn = "issue_press_pass" /\ effects[2].status.ok
    /\ effects[3].call.fn = "issue_press_pass"
    /\ effects[3].call.sender # Agency(effects[3].call.agency).admin
    /\ effects[3].status = Abort("suiproof", E_UNAUTHORIZED)
    /\ Cardinality(press_passes) = 1

\* ---------------------------------------------------- institutional node
\* The node keeps a history of the transactions it sponsored
\* (transactionHistory), loads the sponsor's past transactions when it
\* starts, and serves POST /api/anchor-media and GET /api/transactions.
\* Strings the node matches against a pattern or parses are sequences of
\* characters.

\* Largest number of records kept in transactionHistory.  The model uses a
\* short history: it is cut at MaxHistory as the node's is at 1000.
MaxHistory == 4
\* Number of past transactions asked for at start-up (50 in the node).
LoadLimit == 2
\* Largest and default number of records of GET /api/transactions (100 and
\* 20 in the node).
MaxLimit == 2
DefaultLimit == 1
\* Number of transactions the node sends to the chain in one behaviour.
MaxRequests == 3
\* Largest value of Date.now().
MaxNow == 1

\* Lengths the request schema asks for.
HashHexLen == 128
AddressHexLen == 64

\* A string of n characters c.
Repeat(c, n) == [i \in 1..n |-> c]

\* A field that is missing from the payload or the query.
Undefined == "<undefined>"
UndefinedChars == <<Undefined>>

HexDigits == {"0", "1", "2", "3", "4", "5", "6", "7", "8", "9",
              "a", "b", "c", "d", "e", "f", "A", "B", "C", "D", "E", "F"}

\* The value of a hexadecimal digit.
HexValue(c) ==
    CASE c = "0" -> 0 [] c = "1" -> 1 [] c = "2" -> 2 [] c = "3" -> 3
      [] c = "4" -> 4 [] c = "5" -> 5 [] c = "6" -> 6 [] c = "7" -> 7
      [] c = "8" -> 8 [] c = "9" -> 9
      [] c \in {"a", "A"} -> 10 [] c \in {"b", "B"} -> 11
      [] c \in {"c", "C"} -> 12 [] c \in {"d", "D"} -> 13
      [] c \in {"e", "E"} -> 14 [] c \in {"f", "F"} -> 15

\* The number of leading pairs of hexadecimal digits, from pair i on.
RECURSIVE hex_pairs(_, _)
hex_pairs(hex, i) ==
    IF 2 * i <= Len(hex) /\ hex[2 * i - 1] \in HexDigits /\ hex[2 * i] \in HexDigits
    THEN 1 + hex_pairs(hex, i + 1)
    ELSE 0

\* Buffer.from(hex, "hex"): one byte per pair of hexadecimal digits, up to the
\* first pair that is not one.
hex_to_bytes(hex) ==
    [i \in 1..hex_pairs(hex, 1) |-> 16 * HexValue(hex[2 * i - 1]) + HexValue(hex[2 * i])]

\* The characters as one string.
RECURSIVE Join(_)
Join(chars) ==
    IF Len(chars) = 0 THEN ""
    ELSE IF Len(chars) = 1 THEN chars[1]
    ELSE LET half == Len(chars) \div 2
         IN Join(SubSeq(chars, 1, half)) \o Join(SubSeq(chars, half + 1, Len(chars)))

\* The address of the sponsor's key pair, and a journalist's.
sponsorAddress == <<"0", "x">> \o Repeat("5", AddressHexLen)
JournalistAddress == <<"0", "x">> \o Repeat("b", AddressHexLen)

\* Payloads of POST /api/anchor-media.
CidFields == {"QmX", Undefined}
HashFields == {Repeat("a", HashHexLen), Repeat("C", HashHexLen),
               Repeat("a", HashHexLen - 1), Repeat("a", HashHexLen \div 2),
               Repeat("a", HashHexLen - 1) \o <<"g">>}
GpsFields == {"14.6N,121.0E", ""}
AgencyFields == {"SUI_AP_091", Undefined}
AddressFields == {JournalistAddress, <<"0", "x", "1", "2", "3">>,
                  Repeat("b", AddressHexLen + 2)}
ValidPayload ==
    [ipfsCid |-> "QmX", contentHash |-> Repeat("a", HashHexLen),
     gpsCoordinates |-> "14.6N,121.0E", agencyId |-> "SUI_AP_091",
     journalistAddress |-> JournalistAddress]
\* The valid payload with one field replaced.
Payloads ==
    {[ValidPayload EXCEPT !.ipfsCid = v] : v \in CidFields}
    \cup {[ValidPayload EXCEPT !.contentHash = v] : v \in HashFields}
    \cup {[ValidPayload EXCEPT !.gpsCoordinates = v] : v \in GpsFields}
    \cup {[ValidPayload EXCEPT !.agencyId = v] : v \in AgencyFields}
    \cup {[ValidPayload EXCEPT !.journalistAddress = v] : v \in AddressFields}

\* z.string().min(1)
z_string_min1(v) == v # Undefined /\ Len(v) >= 1

\* z.string().regex(/^[0-9a-fA-F]{128}$/)
z_hash(v) ==
    /\ v # UndefinedChars
    /\ Len(v) = HashHexLen
    /\ \A i \in 1..Len(v) : v[i] \in HexDigits

\* z.string().regex(/^0x[0-9a-fA-F]{64}$/)
z_address(v) ==
    /\ v # UndefinedChars
    /\ Len(v) = 2 + AddressHexLen
    /\ v[1] = "0" /\ v[2] = "x"
    /\ \A i \in 3..Len(v) : v[i] \in HexDigits

\* Variant: the content hash is not looked at.
AnchorRequestSchema_any_hash(body) ==
    /\ z_string_min1(body.ipfsCid)
    /\ z_string_min1(body.gpsCoordinates)
    /\ z_string_min1(body.agencyId)
    /\ z_address(body.journalistAddress)

\* AnchorRequestSchema.safeParse(req.body).success (pressPassId is optional
\* and left out of the payloads)
AnchorRequestSchema(body) ==
    /\ z_string_min1(body.ipfsCid)
    /\ z_hash(body.contentHash)
    /\ z_string_min1(body.gpsCoordinates)
    /\ z_string_min1(body.agencyId)
    /\ z_address(body.journalistAddress)

\* A TransactionRecord (gasCost and details left out).
TransactionRecord(id, timestamp, type, journalist, status) ==
    [id |-> id, timestamp |-> timestamp, type |-> type,
     journalist |-> journalist, txDigest |-> id, status |-> status]

\* Variant: the history is not cut.
history_with_uncut(record) == <<record>> \o transactionHistory

\* transactionHistory after recordTransaction: unshift, then pop when the
\* history has grown past the cap.
history_with(record) ==
    LET unshifted == <<record>> \o transactionHistory
    IN IF Len(unshifted) > MaxHistory
       THEN SubSeq(unshifted, 1, Len(unshifted) - 1)
       ELSE unshifted

\* recordTransaction(record)
recordTransaction(record) ==
    /\ transactionHistory' = history_with(record)
    /\ journalistSet' = journalistSet \cup {record.journalist}

\* Array.prototype.sort with (a, b) => b.timestamp - a.timestamp: stable,
\* largest timestamp first.
RECURSIVE sort_by_timestamp(_)
sort_by_timestamp(records) ==
    IF records = <<>> THEN <<>>
    ELSE LET sorted == sort_by_timestamp(SubSeq(records, 1, Len(records) - 1))
             last   == records[Len(records)]
             keep   == Cardinality({i \in 1..Len(sorted) :
                                       sorted[i].timestamp >= last.timestamp})
         IN SubSeq(sorted, 1, keep) \o <<last>> \o SubSeq(sorted, keep + 1, Len(sorted))

\* What queryTransactionBlocks can return for one transaction of the
\* sponsor: the function called, the chain's timestamp (or none) and the
\* status of the execution.
TxBlocks ==
    {[function |-> "anchor_original_media", timestampMs |-> 0, status |-> "success"],
     [function |-> "issue_press_pass", timestampMs |-> -1, status |-> "failure"],
     [function |-> "transfer", timestampMs |-> 0, status |-> "success"]}

\* The type loadHistoricalTransactions gives a transaction ("" for none).
txType(function) ==
    CASE function = "anchor_original_media" -> "anchor"
      [] function = "issue_press_pass" -> "press-pass"
      [] function = "register_agency" -> "agency"
      [] OTHER -> ""

\* The records loadHistoricalTransactions pushes for the transactions found.
\* The digest of the i-th is -i; a timestamp of -1 stands for none.
RECURSIVE loaded_records(_, _)
loaded_records(blocks, i) ==
    IF i > Len(blocks) THEN <<>>
    ELSE LET txBlock == blocks[i]
             record == TransactionRecord(0 - i,
                          IF txBlock.timestampMs # -1 THEN txBlock.timestampMs ELSE now,
                          txType(txBlock.function), sponsorAddress,
                          IF txBlock.status = "success" THEN "success" ELSE "failed")
         IN (IF txType(txBlock.function) # "" THEN <<record>> ELSE <<>>)
            \o loaded_records(blocks, i + 1)

\* startServer: loadHistoricalTransactions, then listen.  The query fails
\* (the history stays empty) or returns up to LoadLimit transactions.
StartServer ==
    /\ ~listening
    /\ listening' = TRUE
    /\ \/ UNCHANGED transactionHistory
       \/ \E n \in 0..LoadLimit : \E blocks \in [1..n -> TxBlocks] :
             transactionHistory' =
                 sort_by_timestamp(transactionHistory \o loaded_records(blocks, 1))
    /\ UNCHANGED <<ledger, epoch_ms, effects, inflight, clock_ms, result,
                   agency_objects, press_passes, dash, journalistSet, now, response>>

\* Time passes on the node's clock.
NodeTick ==
    /\ now < MaxNow
    /\ now' = now + 1
    /\ UNCHANGED <<ledger, epoch_ms, effects, inflight, clock_ms, result,
                   agency_objects, press_passes, dash, transactionHistory,
                   journalistSet, listening, response>>

\* POST /api/anchor-media.  A payload that fails validation is answered
\* with 400.  Otherwise the transaction is built with the sponsor as its
\* sender and sent: building, signing or sending throws (500), or the chain
\* executes anchor_original_media and the node records the transaction.
anchor_media(body) ==
    IF ~AnchorRequestSchema(body)
    THEN /\ response' = [endpoint |-> "anchor-media", body |-> body,
                         status |-> 400, success |-> FALSE,
                         error |-> "Invalid request data"]
         /\ UNCHANGED <<ledger, effects, transactionHistory, journalistSet>>
    ELSE \/ /\ response' = [endpoint |-> "anchor-media", body |-> body,
                            status |-> 500, success |-> FALSE,
                            error |-> "Failed to anchor media"]
            /\ UNCHANGED <<ledger, effects, transactionHistory, journalistSet>>
         \/ /\ Len(effects) < MaxRequests
            /\ anchor_original_media(body.ipfsCid, hex_to_bytes(body.contentHash),
                                     body.gpsCoordinates, body.agencyId,
                                     sponsorAddress)
            /\ recordTransaction(TransactionRecord(Len(effects'), now, "anchor",
                                     body.journalistAddress, "success"))
            /\ response' = [endpoint |-> "anchor-media", body |-> body,
                            status |-> 200, success |-> TRUE,
                            transactionDigest |-> Len(effects'),
                            manifestId |-> effects'[Len(effects')].created,
                            sponsoredBy |-> sponsorAddress]

\* A client sends a payload to POST /api/anchor-media.
PostAnchorMedia ==
    /\ listening
    /\ \E body \in Payloads : anchor_media(body)
    /\ UNCHANGED <<epoch_ms, inflight, clock_ms, result, agency_objects,
                   press_passes, dash, listening, now>>

\* The limit parameter of GET /api/transactions, as sent in the query.
LimitQueries == {UndefinedChars, <<"a", "b", "c">>, <<"0">>, <<"1">>, <<"2">>,
                 <<"9">>, <<"2", "x">>, <<"-", "1">>}

Digits == {"0", "1", "2", "3", "4", "5", "6", "7", "8", "9"}

\* A number, or NaN.
Num(n) == [nan |-> FALSE, n |-> n]
NaN == [nan |-> TRUE, n |-> 0]

\* The decimal digits at the start of a string, as a number (acc so far).
RECURSIVE leading_digits(_, _)
leading_digits(chars, acc) ==
    IF chars = <<>> \/ Head(chars) \notin Digits THEN acc
    ELSE leading_digits(Tail(chars), 10 * acc + HexValue(Head(chars)))

\* parseInt(string): an optional sign and the decimal digits that follow;
\* NaN when there is none.  (White space and a 0x prefix do not occur in
\* LimitQueries.)
parseInt(chars) ==
    LET negative == chars # <<>> /\ Head(chars) = "-"
        signed   == chars # <<>> /\ Head(chars) \in {"-", "+"}
        rest     == IF signed THEN Tail(chars) ELSE chars
    IN IF rest = <<>> \/ Head(rest) \notin Digits THEN NaN
       ELSE IF negative THEN Num(0 - leading_digits(rest, 0))
       ELSE Num(leading_digits(rest, 0))

\* value || fallback, for numbers: NaN and 0 are falsy.
or_default(value, fallback) == IF value.nan \/ value.n = 0 THEN fallback ELSE value.n

\* The limit GET /api/transactions computes.
transactions_limit(query) ==
    LET wanted == or_default(parseInt(query), DefaultLimit)
    IN IF wanted < MaxLimit THEN wanted ELSE MaxLimit

\* Array.prototype.slice(0, end): a negative end counts from the end.
slice_from_start(array, end) ==
    LET stop == IF end < 0
                THEN (IF Len(array) + end < 0 THEN 0 ELSE Len(array) + end)
                ELSE (IF end > Len(array) THEN Len(array) ELSE end)
    IN SubSeq(array, 1, stop)

\* GET /api/transactions
GetTransactions ==
    /\ listening
    /\ \E query \in LimitQueries :
          response' = [endpoint |-> "transactions", query |-> query, status |-> 200,
                       transactions |->
                           slice_from_start(transactionHistory, transactions_limit(query))]
    /\ UNCHANGED <<ledger, epoch_ms, effects, inflight, clock_ms, result,
                   agency_objects, press_passes, dash, transactionHistory,
                   journalistSet, listening, now>>

\* The node anchoring media for journalists.
NextNode ==
    \/ StartServer
    \/ NodeTick
    \/ PostAnchorMedia

SpecNode == Init /\ [][NextNode]_vars

\* The node anchoring media while its transaction history is read.
NextTransactions ==
    \/ StartServer
    \/ NodeTick
    \/ PostAnchorMedia
    \/ GetTransactions

SpecTransactions == Init /\ [][NextTransactions]_vars

\* The shared or owned MediaManifest object with the given id.
MediaObject(id) == CHOOSE m \in media_objects : m.object.id = id

\* C23: after a successful sponsored anchor through POST /api/anchor-media the
\* address given as journalistAddress is the sender of the transaction and
\* the owner and the creator of the MediaManifest it created.
C23_JournalistOwnsSponsoredManifest ==
    (response.endpoint = "anchor-media" /\ response.status = 200) =>
        LET tx       == effects[response.transactionDigest]
            manifest == MediaObject(response.manifestId)
        IN /\ tx.call.sender = response.body.journalistAddress
           /\ manifest.owner = response.body.journalistAddress
           /\ manifest.object.creator = response.body.journalistAddress

\* The validation rules of the anchoring endpoint, stated on the payload: the
\* four texts present and not empty, the content hash 128 hexadecimal
\* characters, the journalist's address 0x and 64 hexadecimal characters.
TextPresent(v) == v # Undefined /\ v # ""
ViolatesValidationRules(body) ==
    \/ ~TextPresent(body.ipfsCid)
    \/ ~TextPresent(body.gpsCoordinates)
    \/ ~TextPresent(body.agencyId)
    \/ body.contentHash \notin [1..HashHexLen -> HexDigits]
    \/ Len(body.journalistAddress) # AddressHexLen + 2
    \/ SubSeq(body.journalistAddress, 1, 2) # <<"0", "x">>
    \/ SubSeq(body.journalistAddress, 3, AddressHexLen + 2) \notin [1..AddressHexLen -> HexDigits]

C26_TransactionsPageBounded ==
    response.endpoint = "transactions" =>
        /\ Len(response.transactions) <= MaxLimit
        /\ (response.query \in {UndefinedChars, <<"a", "b", "c">>}
               => Len(response.transactions) <= DefaultLimit)

\* C28: transactionHistory never holds more than 1000 records and is always
\* ordered most recent first.
C28_HistoryCappedAndRecentFirst ==
    /\ Len(transactionHistory) <= MaxHistory
    /\ \A i, j \in 1..Len(transactionHistory) :
          i < j => transactionHistory[i].timestamp >= transactionHistory[j].timestamp

\* The history is full, holds loaded and recorded transactions of different
\* times, and more transactions were loaded and recorded than it holds.
C28_Witness ==
    /\ listening
    /\ Len(transactionHistory) = MaxHistory
    /\ Len(effects) = MaxRequests
    /\ transactionHistory[1].id > 0
    /\ transactionHistory[MaxHistory].id < 0
    /\ transactionHistory[1].timestamp > transactionHistory[MaxHistory].timestamp

\* ---------------------------------------------------------------------
\* The dashboard and the verifier page of the web client.

\* The anchor creations the dashboard starts, those that threw not counted.
MaxCreations == 2
\* The number of events one queryEvents call returns (limit: 1000).
QueryLimit == 2

\* The files a journalist picks, and the BLAKE2b-512 digest of each as
\* digest("hex") gives it: 128 lower-case hexadecimal characters.
Files == {"photo-a.jpg", "photo-c.jpg"}
blake2b_hex(file) == Repeat(IF file = "photo-a.jpg" THEN "a" ELSE "c", HashHexLen)

\* The content identifier uploadFileToPinata returns for a file.
pinata_cid(file) == "Qm-" \o file

\* The address of the connected wallet.
WalletAddress == JournalistAddress

\* NEXT_PUBLIC_PACKAGE_ID when it is set.
PackageId == "0xSUIPROOF"

\* The conditions a verification runs under: the package id configured or
\* not, and the full node answering the query or not.
QueryConditions ==
    {[packageId |-> PackageId, answered |-> TRUE],
     [packageId |-> PackageId, answered |-> FALSE],
     [packageId |-> Undefined, answered |-> TRUE]}

\* The events of type MediaAnchored one queryEvents call returns: the first
\* page, oldest first.
queryEvents ==
    LET all == SelectSeq(events, LAMBDA e : e.type = "MediaAnchored")
    IN SubSeq(all, 1, IF Len(all) < QueryLimit THEN Len(all) ELSE QueryLimit)

NoManifestData == [manifestId |-> ZeroId, contentHash |-> "", creator |-> ""]

BlockchainVerificationResult(verified, error, manifestData) ==
    [verified |-> verified, error |-> error, manifestData |-> manifestData]

\* verifyFileOnBlockchain
verifyFileOnBlockchain(contentHashHex, condition) ==
    IF condition.packageId = Undefined
    THEN BlockchainVerificationResult(FALSE, "Package ID not configured", NoManifestData)
    ELSE IF ~condition.answered
    THEN BlockchainVerificationResult(FALSE, "fetch failed", NoManifestData)
    ELSE LET data     == queryEvents
             matching == {i \in 1..Len(data) :
                             data[i].content_hash_hex = Join(contentHashHex)}
         IN IF matching # {}
            THEN LET eventData == data[CHOOSE i \in matching : \A j \in matching : i <= j]
                 IN BlockchainVerificationResult(TRUE, "",
                        [manifestId  |-> eventData.manifest_id,
                         contentHash |-> eventData.content_hash_hex,
                         creator     |-> eventData.creator])
            ELSE BlockchainVerificationResult(FALSE,
                     "No matching MediaManifest found on blockchain", NoManifestData)

\* An entry of the dashboard's list.
MediaManifest(provenanceId, fileName, status, contentHash) ==
    [provenanceId |-> provenanceId, fileName |-> fileName, status |-> status,
     contentHash |-> contentHash]

\* What the browser holds under suiproof_user_manifests when the page is
\* opened: nothing, or a manifest saved as Pending.
StoredManifests ==
    {<<>>, <<MediaManifest(0, "photo-a.jpg", "Pending", blake2b_hex("photo-a.jpg"))>>}

NotVerifying == [running |-> FALSE, mediaManifests |-> <<>>]

\* The page is opened: the list is loaded from localStorage, the save effect
\* writes it back, and the mount effect starts verifying Pending manifests.
Mount ==
    /\ ~mounted
    /\ mounted' = TRUE
    /\ \E stored \in StoredManifests :
          /\ mediaManifests' = stored
          /\ localStorage' = stored
          /\ verifying' =
                IF \E i \in 1..Len(stored) : stored[i].status = "Pending"
                THEN [running |-> TRUE, mediaManifests |-> stored]
                ELSE NotVerifying
    /\ UNCHANGED <<ledger, epoch_ms, effects, inflight, clock_ms, result,
                   agency_objects, press_passes, node, creating, audit>>

\* verifyManifestStatuses finishes: every Pending manifest of the list the
\* effect captured gets the status its verification gave, the list replaces
\* the state, and the save effect writes it to localStorage.
CompleteVerification ==
    /\ verifying.running
    /\ \E conditions \in [1..Len(verifying.mediaManifests) -> QueryConditions] :
          LET updatedManifests ==
                 [i \in 1..Len(verifying.mediaManifests) |->
                     LET manifest == verifying.mediaManifests[i]
                     IN IF manifest.status # "Pending"
                        THEN manifest
                        ELSE [manifest EXCEPT !.status =
                                IF verifyFileOnBlockchain(manifest.contentHash,
                                                          conditions[i]).verified
                                THEN "Verified" ELSE "Unverified"]]
          IN /\ mediaManifests' = updatedManifests
             /\ localStorage' = updatedManifests
    /\ verifying' = NotVerifying
    /\ UNCHANGED <<ledger, epoch_ms, effects, inflight, clock_ms, result,
                   agency_objects, press_passes, node, mounted, creating, audit>>

\* handleCreateAnchor is called from the New Anchor dialog; it keeps the list
\* of the render it was created in.  The dialog can be closed and opened
\* again while a creation is in flight.
StartCreateAnchor ==
    /\ mounted
    /\ Len(effects) + BagCardinality(creating) < MaxCreations
    /\ \E file \in Files, useSponsored \in BOOLEAN :
          creating' = creating (+) SetToBag({[file |-> file, useSponsored |-> useSponsored,
                                              mediaManifests |-> mediaManifests]})
    /\ UNCHANGED <<ledger, epoch_ms, effects, inflight, clock_ms, result,
                   agency_objects, press_passes, node, mediaManifests,
                   localStorage, mounted, verifying, audit>>

\* A transaction the chain executed without success: its effects carry the
\* status failure and nothing it did is kept.
InsufficientGas == Abort("gas", 0)

\* setMediaManifests([newManifest, ...mediaManifests]) and the save effect.
add_manifest(newManifest, captured) ==
    /\ mediaManifests' = <<newManifest>> \o captured
    /\ localStorage' = <<newManifest>> \o captured

\* createAnchorMediaTransaction and wallet.signAndExecuteTransactionBlock:
\* the chain executes anchor_original_media for the wallet's address, with
\* success or not, and the wallet returns the result.
signAndExecuteTransactionBlock(cid, fileHash, gps, agencyId) ==
    \/ anchor_original_media(cid, hex_to_bytes(fileHash), gps, agencyId, WalletAddress)
    \/ /\ effects' = Append(effects,
                            Effects(MediaCall(cid, hex_to_bytes(fileHash), gps,
                                              agencyId, WalletAddress),
                                    InsufficientGas, ZeroId))
       /\ UNCHANGED ledger

\* An anchor creation in flight runs to its end: it throws (the upload
\* fails, the wallet is not connected or rejects, the node cannot be reached
\* or refuses), or it gets a transaction digest from the node or the wallet
\* and puts a Verified manifest in front of the list it captured.
CompleteCreateAnchor ==
    \E task \in BagToSet(creating) :
       LET fileHash == blake2b_hex(task.file)
           ipfsCid  == pinata_cid(task.file)
           gps      == "14.6N,121.0E"
           agencyId == "SUI_AP_091"
       IN /\ creating' = creating (-) SetToBag({task})
          /\ \/ UNCHANGED <<ledger, effects, node, mediaManifests, localStorage>>
             \/ /\ task.useSponsored
                /\ listening
                /\ anchor_media([ipfsCid |-> ipfsCid, contentHash |-> fileHash,
                                 gpsCoordinates |-> gps, agencyId |-> agencyId,
                                 journalistAddress |-> WalletAddress])
                /\ IF response'.success
                   THEN add_manifest(MediaManifest(response'.transactionDigest, task.file,
                                                   "Verified", fileHash),
                                     task.mediaManifests)
                   ELSE UNCHANGED <<mediaManifests, localStorage>>
                /\ UNCHANGED <<listening, now>>
             \/ /\ ~task.useSponsored
                /\ Len(effects) < MaxRequests
                /\ signAndExecuteTransactionBlock(ipfsCid, fileHash, gps, agencyId)
                /\ add_manifest(MediaManifest(Len(effects'), task.file, "Verified", fileHash),
                                task.mediaManifests)
                /\ UNCHANGED node
          /\ UNCHANGED <<epoch_ms, inflight, clock_ms, result, agency_objects,
                         press_passes, mounted, verifying, audit>>

\* The toasts of the verifier page.
ConfirmedToast == [title |-> "Verification Complete",
                   description |-> "File authenticity confirmed on blockchain"]
NoRecordToast == [title |-> "Verification Complete",
                  description |-> "No matching record found on blockchain"]

\* The card AuditResult renders for a result.
AuditResult(outcome) ==
    IF outcome.verified /\ outcome.manifestData # NoManifestData
    THEN [title |-> "Authentic Media Confirmed", text |-> "",
          finding |-> "Blockchain Verified"]
    ELSE [title |-> "Unverified Content",
          text |-> IF outcome.error # "" THEN outcome.error
                   ELSE "This file's cryptographic hash does not match any MediaManifest on the Sui Network.",
          finding |-> "No blockchain record"]

\* A wallet signs and sends the transaction createAnchorMediaTransaction
\* builds for a file.
ExecuteAnchorMedia ==
    /\ Len(effects) < MaxRequests
    /\ \E file \in Files :
          signAndExecuteTransactionBlock(pinata_cid(file), blake2b_hex(file),
                                         "14.6N,121.0E", "SUI_AP_091")
    /\ UNCHANGED <<epoch_ms, inflight, clock_ms, result, others>>

\* handleFileSelect of the verifier page: the file is hashed, looked up with
\* verifyFileOnBlockchain, and the result is shown as a card and a toast.
VerifyFile ==
    \E file \in Files, condition \in QueryConditions :
       LET verification == verifyFileOnBlockchain(blake2b_hex(file), condition)
       IN /\ audit' = [view |-> "verify", file |-> file, condition |-> condition,
                       result |-> verification,
                       card |-> AuditResult(verification),
                       toast |-> IF verification.verified
                                 THEN ConfirmedToast ELSE NoRecordToast]
          /\ UNCHANGED <<ledger, epoch_ms, effects, inflight, clock_ms, result,
                         agency_objects, press_passes, node, mediaManifests,
                         localStorage, mounted, verifying, creating>>

\* The dashboard with the institutional node it asks for sponsorship.
NextDashboard ==
    \/ StartServer
    \/ Mount
    \/ CompleteVerification
    \/ StartCreateAnchor
    \/ CompleteCreateAnchor

SpecDashboard == Init /\ [][NextDashboard]_vars

\* The verifier page, with wallets anchoring files.
NextVerifier ==
    \/ ExecuteAnchorMedia
    \/ VerifyFile

SpecVerifier == Init /\ [][NextVerifier]_vars

\* The verification ran with the package id configured and the full node
\* answering.
CouldVerify(condition) == condition.packageId # Undefined /\ condition.answered

\* C21: a verification client presents "no record exists for this
\* fingerprint" differently from "a record may exist but could not be
\* verified": a verification that could not be carried out is never shown as
\* the absence of a record.
C21_NotFoundDistinctFromUnverifiable ==
    (audit.view = "verify" /\ ~CouldVerify(audit.condition)) =>
        /\ audit.toast # NoRecordToast
        /\ audit.card.finding # "No blockchain record"

\* A transaction that anchored the content hash, given in hexadecimal, with
\* success.
AnchoredOnChain(contentHashHex) ==
    \E k \in 1..Len(effects) :
        /\ effects[k].status.ok
        /\ effects[k].call.fn \in {"anchor_original_media", "create_edited_version"}
        /\ effects[k].call.content_hash = hex_to_bytes(contentHashHex)

\* C25: every file whose hash was anchored with anchor_original_media is
\* reported as verified, with the data of a manifest carrying that hash, by
\* every later verifyFileOnBlockchain with the same hash, however many other
\* anchors exist.
C25_AnchoredFileIsVerified ==
    [][(UNCHANGED effects /\ audit'.view = "verify"
        /\ CouldVerify(audit'.condition)
        /\ AnchoredOnChain(blake2b_hex(audit'.file)))
       => /\ audit'.result.verified
          /\ audit'.result.manifestData.contentHash = Join(blake2b_hex(audit'.file))]_vars

\* C29: every manifest a successful handleCreateAnchor added to the list is
\* still in the list and in its localStorage copy after every later step of
\* the mount-time verification and of the other creations in flight.
C29_AddedManifestStays ==
    [][\A i \in 1..Len(mediaManifests) :
          mediaManifests[i].provenanceId > 0 =>
             /\ \E j \in 1..Len(mediaManifests') :
                   mediaManifests'[j].provenanceId = mediaManifests[i].provenanceId
             /\ \E j \in 1..Len(localStorage') :
                   localStorage'[j].provenanceId = mediaManifests[i].provenanceId]_vars

\* C30: a manifest has the status Verified in the dashboard only if a
\* transaction anchoring its content hash was executed with success.
C30_VerifiedOnlyIfAnchored ==
    \A i \in 1..Len(mediaManifests) :
        mediaManifests[i].status = "Verified" => AnchoredOnChain(mediaManifests[i].contentHash)
====
